---- MODULE Spec2Model ----
(***************************************************************************)
(* Model of src/main/main.ts: the Electron main process of the            *)
(* electron-webdriverio boilerplate.                                      *)
(*                                                                         *)
(*   - startDriverBin: the driver-process supervisor (one promise settled *)
(*     from stdout / stderr / 'error' / 'exit' / the port probe);         *)
(*   - the 'ipc-example' handler, which awaits startDriverBin, runs the   *)
(*     webdriverio session and replies 'pong';                            *)
(*   - createWindow and the app 'ready' / 'activate' / 'closed' /         *)
(*     'window-all-closed' handlers.                                      *)
(*                                                                         *)
(* Every action is one callback of the event loop, run to completion.     *)
(***************************************************************************)
EXTENDS Integers, Sequences, FiniteSets, TLC

(***************************************************************************)
(* Bounds of the model.                                                    *)
(***************************************************************************)
\* number of 'ipc-example' messages the renderer sends
MaxMsgs == 2
\* total number of stdout / stderr chunks and 'error' events delivered
MaxEvents == 2
\* number of createWindow calls
MaxWindows == 4

(***************************************************************************)
(* Program constants.                                                      *)
(***************************************************************************)
\* exit code reported as null (the process was ended by a signal)
NullCode == -1
\* U+FFFD, what Buffer.toString('utf8') yields for a malformed sequence
Replacement == 65533

Msgs == 1..MaxMsgs

\* 'Error:' as code points
Marker == <<69, 114, 114, 111, 114, 58>>

\* The chunks (byte sequences) the child process may write:
\* "Error:", "Err", "or:", "x", U+00E9 whole, and its first byte alone.
Chunks ==
  { <<69, 114, 114, 111, 114, 58>>,
    <<69, 114, 114>>,
    <<111, 114, 58>>,
    <<120>>,
    <<195, 169>>,
    <<195>> }

\* the exit codes an 'exit' event may carry
ExitCodes == {0, 1, NullCode}

VARIABLES
  \* ---- 'ipc-example' handler, one entry per message ----
  hpc,          \* position of the async handler
  replies,      \* payloads sent with event.reply('ipc-example', ...)
  spawns,       \* history: number of spawn(bin, ...) calls made
  sessions,     \* history: number of webdriverio.remote(...) calls made
  \* ---- startDriverBin, one entry per invocation ----
  proc,         \* state of the spawned child process
  exitCode,     \* program.exitCode: the code its 'exit' event carried
  isFirst,      \* the guard flag
  stderr,       \* the buffer named stderr (code points)
  errText,      \* history: the text of the stderr chunks alone
  first,        \* history: the signal that cleared the guard flag
  probe,        \* the waitPort promise
  probes,       \* number of waitPort(...) calls made
  promise,      \* the Es6Promise returned by startDriverBin
  calls,        \* number of resolve(...) and reject(...) calls made
  events,       \* number of chunks and 'error' events delivered so far
  \* ---- windows ----
  isDebug,      \* NODE_ENV === 'development' || DEBUG_PROD === 'true'
  darwin,       \* process.platform === 'darwin'
  app,          \* "loading", "starting", "ready" or "quit"
  mainWindow,   \* the module-level handle; 0 is null
  live,         \* the BrowserWindows that exist
  suspended,    \* createWindow calls awaiting installExtensions()
  created       \* number of BrowserWindows constructed so far

driverVars == <<proc, exitCode, isFirst, stderr, errText, first, probe,
                probes, promise, calls, events>>
ipcVars == <<hpc, replies, spawns, sessions>>
windowVars == <<isDebug, darwin, app, mainWindow, live, suspended, created>>
vars == <<hpc, replies, spawns, sessions, proc, exitCode, isFirst, stderr,
          errText, first, probe, probes, promise, calls, events, isDebug,
          darwin, app, mainWindow, live, suspended, created>>

(***************************************************************************)
(* Pure helpers.                                                           *)
(***************************************************************************)

\* data.toString('utf8'): one- and two-byte sequences are decoded, every
\* malformed or truncated sequence becomes U+FFFD.
RECURSIVE toStringUtf8(_)
toStringUtf8(bytes) ==
  IF bytes = <<>> THEN <<>>
  ELSE LET b == Head(bytes)
           rest == Tail(bytes)
       IN IF b < 128 THEN <<b>> \o toStringUtf8(rest)
          ELSE IF /\ b >= 194 /\ b <= 223
                  /\ rest # <<>>
                  /\ Head(rest) >= 128 /\ Head(rest) <= 191
               THEN <<(b - 192) * 64 + (Head(rest) - 128)>>
                      \o toStringUtf8(Tail(rest))
               ELSE <<Replacement>> \o toStringUtf8(rest)

\* variant: s.indexOf(m) !== -1, the marker anywhere in the text
indexOfFound(s, m) ==
  \E k \in 1..(Len(s) - Len(m) + 1) : SubSeq(s, k, k + Len(m) - 1) = m

\* s.indexOf(m) === 0
indexOfIsZero(s, m) ==
  /\ Len(s) >= Len(m)
  /\ SubSeq(s, 1, Len(m)) = m

Pending == [state |-> "pending", kind |-> "none", detail |-> <<>>]

\* the values startDriverBin settles with
Program(i) == [state |-> "fulfilled", kind |-> "program", detail |-> <<i>>]
ExitCodeError(code) ==
  [state |-> "rejected", kind |-> "ExitCode", detail |-> <<code>>]
StderrError(text) ==
  [state |-> "rejected", kind |-> "Stderr", detail |-> text]
ThrownError == [state |-> "rejected", kind |-> "Thrown", detail |-> <<>>]
ErrorEventError ==
  [state |-> "rejected", kind |-> "ErrorEvent", detail |-> <<>>]
StartError ==
  [state |-> "rejected", kind |-> "FailedToStart", detail |-> <<>>]

(***************************************************************************)
(* Initial state: the module is being loaded, no message has arrived.     *)
(***************************************************************************)
Init ==
  /\ hpc = [i \in Msgs |-> "idle"]
  /\ replies = [i \in Msgs |-> <<>>]
  /\ spawns = [i \in Msgs |-> 0]
  /\ sessions = [i \in Msgs |-> 0]
  /\ proc = [i \in Msgs |-> "none"]
  /\ exitCode = [i \in Msgs |-> NullCode]
  /\ isFirst = [i \in Msgs |-> TRUE]
  /\ stderr = [i \in Msgs |-> <<>>]
  /\ errText = [i \in Msgs |-> <<>>]
  /\ first = [i \in Msgs |-> "none"]
  /\ probe = [i \in Msgs |-> "none"]
  /\ probes = [i \in Msgs |-> 0]
  /\ promise = [i \in Msgs |-> Pending]
  /\ calls = [i \in Msgs |-> 0]
  /\ events = 0
  /\ isDebug = FALSE
  /\ darwin = FALSE
  /\ app = "loading"
  /\ mainWindow = 0
  /\ live = {}
  /\ suspended = 0
  /\ created = 0

(***************************************************************************)
(* Es6Promise: the first resolve or reject settles the promise, every     *)
(* later call is ignored by the promise (it is still a call).             *)
(***************************************************************************)
resolve(i, value) ==
  /\ promise' = [promise EXCEPT ![i] =
                    IF @.state = "pending" THEN value ELSE @]
  /\ calls' = [calls EXCEPT ![i] = @ + 1]

reject(i, reason) ==
  /\ promise' = [promise EXCEPT ![i] =
                    IF @.state = "pending" THEN reason ELSE @]
  /\ calls' = [calls EXCEPT ![i] = @ + 1]

\* the child's stdio streams are open: 'data' may still be emitted
StdioOpen(i) == proc[i] \in {"running", "errored", "exited"}

(***************************************************************************)
(* startDriverBin(bin, port): the promise executor.  spawn either throws  *)
(* (the catch block rejects) or returns the child, and the five handlers  *)
(* are registered.                                                         *)
(***************************************************************************)
startDriverBin(i) ==
  /\ spawns' = [spawns EXCEPT ![i] = @ + 1]
  /\ \/ /\ reject(i, ThrownError)
        /\ UNCHANGED <<proc, exitCode, isFirst, stderr, errText, first,
                       probe, probes, events>>
     \/ /\ proc' = [proc EXCEPT ![i] = "running"]
        /\ isFirst' = [isFirst EXCEPT ![i] = TRUE]
        /\ stderr' = [stderr EXCEPT ![i] = <<>>]
        /\ UNCHANGED <<exitCode, errText, first, probe, probes, promise,
                       calls, events>>

\* variant: the stdout handler without its `if (!isFirst) return`
StdoutDataUnguarded(i, data) ==
  /\ StdioOpen(i)
  /\ events < MaxEvents
  /\ events' = events + 1
  /\ stderr' = [stderr EXCEPT ![i] = @ \o toStringUtf8(data)]
  /\ isFirst' = [isFirst EXCEPT ![i] = FALSE]
  /\ first' = [first EXCEPT ![i] = IF isFirst[i] THEN "stdout" ELSE @]
  /\ probe' = [probe EXCEPT ![i] = "pending"]
  /\ probes' = [probes EXCEPT ![i] = @ + 1]
  /\ UNCHANGED <<proc, exitCode, errText, promise, calls>>
  /\ UNCHANGED <<ipcVars, windowVars>>

\* variant: the stdout handler without its `isFirst = false`
StdoutDataNoClear(i, data) ==
  /\ StdioOpen(i)
  /\ events < MaxEvents
  /\ events' = events + 1
  /\ stderr' = [stderr EXCEPT ![i] = @ \o toStringUtf8(data)]
  /\ IF ~isFirst[i]
       THEN UNCHANGED <<first, probe, probes>>
       ELSE /\ first' = [first EXCEPT ![i] = "stdout"]
            /\ probe' = [probe EXCEPT ![i] = "pending"]
            /\ probes' = [probes EXCEPT ![i] = @ + 1]
  /\ UNCHANGED <<proc, exitCode, isFirst, errText, promise, calls>>
  /\ UNCHANGED <<ipcVars, windowVars>>

\* program.stdout.on('data', ...)
StdoutData(i, data) ==
  /\ StdioOpen(i)
  /\ events < MaxEvents
  /\ events' = events + 1
  /\ stderr' = [stderr EXCEPT ![i] = @ \o toStringUtf8(data)]
  /\ IF ~isFirst[i]
       THEN UNCHANGED <<isFirst, first, probe, probes>>
       ELSE /\ isFirst' = [isFirst EXCEPT ![i] = FALSE]
            /\ first' = [first EXCEPT ![i] = "stdout"]
            /\ probe' = [probe EXCEPT ![i] = "pending"]
            /\ probes' = [probes EXCEPT ![i] = @ + 1]
  /\ UNCHANGED <<proc, exitCode, errText, promise, calls>>
  /\ UNCHANGED <<ipcVars, windowVars>>

\* variant: waitPort(...).then(resolve), which hands out waitPort's result
WaitPortFulfilledPassThrough(i, open) ==
  /\ probe[i] = "pending"
  /\ probe' = [probe EXCEPT ![i] = IF open THEN "open" ELSE "timeout"]
  /\ resolve(i, [state |-> "fulfilled", kind |-> "open", detail |-> <<>>])
  /\ UNCHANGED <<proc, exitCode, isFirst, stderr, errText, first, probes,
                 events>>
  /\ UNCHANGED <<ipcVars, windowVars>>

\* waitPort(...).then(() => resolve(program)).  wait-port fulfils its
\* promise in two cases: the port accepted a connection (open), or the
\* timeout passed without one (open is false).  The callback takes no
\* argument, so it does not look at which.
WaitPortFulfilled(i, open) ==
  /\ probe[i] = "pending"
  /\ probe' = [probe EXCEPT ![i] = IF open THEN "open" ELSE "timeout"]
  /\ resolve(i, Program(i))
  /\ UNCHANGED <<proc, exitCode, isFirst, stderr, errText, first, probes,
                 events>>
  /\ UNCHANGED <<ipcVars, windowVars>>

\* waitPort(...).catch(err => reject(new Error('Failed to start ...'))).
\* wait-port rejects its promise on an error other than a refused or timed
\* out connection (invalid parameters, a host that cannot be resolved).
WaitPortRejected(i) ==
  /\ probe[i] = "pending"
  /\ probe' = [probe EXCEPT ![i] = "error"]
  /\ reject(i, StartError)
  /\ UNCHANGED <<proc, exitCode, isFirst, stderr, errText, first, probes,
                 events>>
  /\ UNCHANGED <<ipcVars, windowVars>>

\* variant: the stderr handler rejecting as soon as the text it has
\* accumulated begins with 'Error:'
StderrDataEager(i, data) ==
  /\ StdioOpen(i)
  /\ events < MaxEvents
  /\ events' = events + 1
  /\ stderr' = [stderr EXCEPT ![i] = @ \o toStringUtf8(data)]
  /\ errText' = [errText EXCEPT ![i] = @ \o toStringUtf8(data)]
  /\ IF isFirst[i] /\ indexOfIsZero(stderr[i] \o toStringUtf8(data), Marker)
       THEN /\ isFirst' = [isFirst EXCEPT ![i] = FALSE]
            /\ first' = [first EXCEPT ![i] = "stderr"]
            /\ reject(i, StderrError(stderr[i] \o toStringUtf8(data)))
       ELSE UNCHANGED <<isFirst, first, promise, calls>>
  /\ UNCHANGED <<proc, exitCode, probe, probes>>
  /\ UNCHANGED <<ipcVars, windowVars>>

\* program.stderr.on('data', ...)
StderrData(i, data) ==
  /\ StdioOpen(i)
  /\ events < MaxEvents
  /\ events' = events + 1
  /\ stderr' = [stderr EXCEPT ![i] = @ \o toStringUtf8(data)]
  /\ errText' = [errText EXCEPT ![i] = @ \o toStringUtf8(data)]
  /\ UNCHANGED <<proc, exitCode, isFirst, first, probe, probes, promise,
                 calls>>
  /\ UNCHANGED <<ipcVars, windowVars>>

\* program.on('error', ...)
ProcError(i) ==
  /\ StdioOpen(i)
  /\ events < MaxEvents
  /\ events' = events + 1
  /\ proc' = [proc EXCEPT ![i] = IF @ = "running" THEN "errored" ELSE @]
  /\ IF ~isFirst[i]
       THEN UNCHANGED <<isFirst, first, promise, calls>>
       ELSE /\ isFirst' = [isFirst EXCEPT ![i] = FALSE]
            /\ first' = [first EXCEPT ![i] = "error"]
            /\ reject(i, ErrorEventError)
  /\ UNCHANGED <<exitCode, stderr, errText, probe, probes>>
  /\ UNCHANGED <<ipcVars, windowVars>>

\* program.on('close', ...)
ProcClose(i) ==
  /\ proc[i] \in {"errored", "exited"}
  /\ proc' = [proc EXCEPT ![i] = "closed"]
  /\ UNCHANGED <<exitCode, isFirst, stderr, errText, first, probe, probes,
                 promise, calls, events>>
  /\ UNCHANGED <<ipcVars, windowVars>>

\* variant: the 'exit' handler without its `if (!isFirst) return`
ProcExitUnguarded(i, code) ==
  /\ proc[i] \in {"running", "errored"}
  /\ proc' = [proc EXCEPT ![i] = "exited"]
  /\ exitCode' = [exitCode EXCEPT ![i] = code]
  /\ isFirst' = [isFirst EXCEPT ![i] = FALSE]
  /\ first' = [first EXCEPT ![i] = IF isFirst[i] THEN "exit" ELSE @]
  /\ IF code = 0
       THEN IF indexOfIsZero(stderr[i], Marker)
              THEN reject(i, StderrError(stderr[i]))
              ELSE resolve(i, Program(i))
       ELSE reject(i, ExitCodeError(code))
  /\ UNCHANGED <<stderr, errText, probe, probes, events>>
  /\ UNCHANGED <<ipcVars, windowVars>>

\* program.on('exit', ...)
ProcExit(i, code) ==
  /\ proc[i] \in {"running", "errored"}
  /\ proc' = [proc EXCEPT ![i] = "exited"]
  /\ exitCode' = [exitCode EXCEPT ![i] = code]
  /\ IF ~isFirst[i]
       THEN UNCHANGED <<isFirst, first, promise, calls>>
       ELSE /\ isFirst' = [isFirst EXCEPT ![i] = FALSE]
            /\ first' = [first EXCEPT ![i] = "exit"]
            /\ IF code = 0
                 THEN IF indexOfIsZero(stderr[i], Marker)
                        THEN reject(i, StderrError(stderr[i]))
                        ELSE resolve(i, Program(i))
                 ELSE reject(i, ExitCodeError(code))
  /\ UNCHANGED <<stderr, errText, probe, probes, events>>
  /\ UNCHANGED <<ipcVars, windowVars>>

(***************************************************************************)
(* ipcMain.on('ipc-example', async (event, arg) => ...)                    *)
(***************************************************************************)
\* event.reply('ipc-example', 'pong')
Reply(i) == replies' = [replies EXCEPT ![i] = Append(@, "pong")]

\* the message arrives: the handler runs up to its first await
IpcExample(i) ==
  /\ hpc[i] = "idle"
  /\ \A j \in Msgs : j < i => hpc[j] # "idle"
  /\ startDriverBin(i)
  /\ hpc' = [hpc EXCEPT ![i] = "awaitDriver"]
  /\ UNCHANGED <<replies, sessions, windowVars>>

\* `await startDriverBin(...)` resumes: outside the try block, so a
\* rejection leaves the handler (its own promise rejects, nobody handles
\* it); otherwise the try block is entered and webdriverio.remote is called
AwaitDriver(i) ==
  /\ hpc[i] = "awaitDriver"
  /\ promise[i].state # "pending"
  /\ IF promise[i].state = "fulfilled"
       THEN /\ hpc' = [hpc EXCEPT ![i] = "awaitRemote"]
            /\ sessions' = [sessions EXCEPT ![i] = @ + 1]
       ELSE /\ hpc' = [hpc EXCEPT ![i] = "rejected"]
            /\ UNCHANGED sessions
  /\ UNCHANGED <<replies, spawns, driverVars, windowVars>>

\* variant: a failed webdriverio.remote(...) is tried once more
AwaitRemoteRetry(i, ok) ==
  /\ hpc[i] = "awaitRemote"
  /\ IF ok
       THEN /\ hpc' = [hpc EXCEPT ![i] = "awaitExecute"]
            /\ UNCHANGED <<replies, sessions>>
       ELSE IF sessions[i] < 2
              THEN /\ sessions' = [sessions EXCEPT ![i] = @ + 1]
                   /\ UNCHANGED <<hpc, replies>>
              ELSE /\ Reply(i)
                   /\ hpc' = [hpc EXCEPT ![i] = "caught"]
                   /\ UNCHANGED sessions
  /\ UNCHANGED <<spawns, driverVars, windowVars>>

\* `await webdriverio.remote(...)` resumes; a failure goes to the catch
\* block, which logs it, and the reply follows
AwaitRemote(i, ok) ==
  /\ hpc[i] = "awaitRemote"
  /\ IF ok
       THEN /\ hpc' = [hpc EXCEPT ![i] = "awaitExecute"]
            /\ UNCHANGED replies
       ELSE /\ Reply(i)
            /\ hpc' = [hpc EXCEPT ![i] = "caught"]
  /\ UNCHANGED <<spawns, sessions, driverVars, windowVars>>

\* `await browser.executeAsync(...)` resumes
AwaitExecute(i, ok) ==
  /\ hpc[i] = "awaitExecute"
  /\ Reply(i)
  /\ hpc' = [hpc EXCEPT ![i] = IF ok THEN "done" ELSE "caught"]
  /\ UNCHANGED <<spawns, sessions, driverVars, windowVars>>

\* one callback of the event loop that belongs to message i
Step(i) ==
  \/ IpcExample(i)
  \/ \E data \in Chunks : StdoutData(i, data)
  \/ \E data \in Chunks : StderrData(i, data)
  \/ ProcError(i)
  \/ \E code \in ExitCodes : ProcExit(i, code)
  \/ ProcClose(i)
  \/ \E open \in BOOLEAN : WaitPortFulfilled(i, open)
  \/ WaitPortRejected(i)
  \/ AwaitDriver(i)
  \/ \E ok \in BOOLEAN : AwaitRemote(i, ok)
  \/ \E ok \in BOOLEAN : AwaitExecute(i, ok)

\* one 'ipc-example' round trip
Next == Step(1)

Spec == Init /\ [][Next]_vars

\* several 'ipc-example' messages, their round trips interleaved
IpcNext == \E i \in Msgs : Step(i)

IpcSpec == Init /\ [][IpcNext]_vars

(***************************************************************************)
(* Windows: createWindow, app.whenReady().then(...), 'activate',           *)
(* the window's 'closed' handler and 'window-all-closed'.                  *)
(***************************************************************************)
\* the module is loaded: process.env and process.platform are read
Load(debug, mac) ==
  /\ app = "loading"
  /\ app' = "starting"
  /\ isDebug' = debug
  /\ darwin' = mac
  /\ UNCHANGED <<mainWindow, live, suspended, created>>
  /\ UNCHANGED <<ipcVars, driverVars>>

\* mainWindow = new BrowserWindow(...), with its 'closed' handler
NewBrowserWindow ==
  /\ created' = created + 1
  /\ mainWindow' = created + 1
  /\ live' = live \cup {created + 1}

\* createWindow(): in debug mode it first awaits installExtensions(),
\* otherwise it runs to its end within the call
createWindow ==
  IF isDebug
    THEN /\ suspended' = suspended + 1
         /\ UNCHANGED <<mainWindow, live, created>>
    ELSE /\ NewBrowserWindow
         /\ UNCHANGED suspended

\* app.whenReady().then(() => { createWindow(); app.on('activate', ...) })
WhenReady ==
  /\ app = "starting"
  /\ app' = "ready"
  /\ createWindow
  /\ UNCHANGED <<isDebug, darwin>>
  /\ UNCHANGED <<ipcVars, driverVars>>

\* app.on('activate', () => { if (mainWindow === null) createWindow(); })
Activate ==
  /\ app = "ready"
  /\ created + suspended < MaxWindows
  /\ IF mainWindow = 0
       THEN createWindow
       ELSE UNCHANGED <<mainWindow, live, suspended, created>>
  /\ UNCHANGED <<isDebug, darwin, app>>
  /\ UNCHANGED <<ipcVars, driverVars>>

\* `await installExtensions()` resumes (its failure is caught inside it):
\* the rest of createWindow runs
InstallExtensionsDone ==
  /\ app = "ready"
  /\ suspended > 0
  /\ suspended' = suspended - 1
  /\ NewBrowserWindow
  /\ UNCHANGED <<isDebug, darwin, app>>
  /\ UNCHANGED <<ipcVars, driverVars>>

\* window w is closed: its 'closed' handler, then 'window-all-closed'
\* when it was the last one
Closed(w) ==
  /\ app = "ready"
  /\ w \in live
  /\ live' = live \ {w}
  /\ mainWindow' = 0
  /\ app' = IF live \ {w} = {} /\ ~darwin THEN "quit" ELSE app
  /\ UNCHANGED <<isDebug, darwin, suspended, created>>
  /\ UNCHANGED <<ipcVars, driverVars>>

WindowNext ==
  \/ \E debug \in BOOLEAN, mac \in BOOLEAN : Load(debug, mac)
  \/ WhenReady
  \/ Activate
  \/ InstallExtensionsDone
  \/ \E w \in 1..MaxWindows : Closed(w)

WindowSpec == Init /\ [][WindowNext]_vars

(***************************************************************************)
(* The event loop runs a continuation once its promise has settled, and   *)
(* a started port probe ends (connected, timed out or failed).  Nothing   *)
(* makes the child process write, fail or exit.                           *)
(***************************************************************************)
FairSpec ==
  /\ Spec
  /\ WF_vars((\E open \in BOOLEAN : WaitPortFulfilled(1, open))
               \/ WaitPortRejected(1))
  /\ WF_vars(AwaitDriver(1))

(***************************************************************************)
(* Properties.                                                             *)
(***************************************************************************)

\* text t has the marker m at offset 0
BeginsWith(t, m) ==
  /\ Len(t) >= Len(m)
  /\ \A k \in 1..Len(m) : t[k] = m[k]

\* the promise of invocation i settles in this step
Settles(i) == promise[i].state = "pending" /\ promise'[i].state # "pending"

\* the child of invocation i has been spawned and has emitted neither
\* 'exit' nor 'close'
Running(i) == proc[i] \in {"running", "errored"}

\* C1: one invocation of startDriverBin makes at most one resolve or reject
\* call in total, whatever chunks, 'error' and 'exit' events and probe
\* completion arrive and in whatever order.
C1_SettlesAtMostOnce == \A i \in Msgs : calls[i] <= 1

\* stdout came first, the probe has ended, and an 'error' or a second chunk
\* and the 'exit' event have arrived as well
C1_Witness ==
  /\ first[1] = "stdout"
  /\ probe[1] \in {"open", "timeout", "error"}
  /\ proc[1] \in {"exited", "closed"}
  /\ events >= 2
  /\ calls[1] = 1

\* C2: every invocation of startDriverBin eventually settles, whatever
\* subset of the four signal sources fires.
C2_EventuallySettles ==
  \A i \in Msgs : (hpc[i] # "idle") ~> (promise[i].state # "pending")

\* C3: every 'ipc-example' message whose handler has ended was answered
\* with exactly one 'ipc-example' reply carrying 'pong', whether the driver
\* start resolved or rejected and whether the session succeeded or threw.
C3_EveryMessageAnswered ==
  \A i \in Msgs :
    hpc[i] \in {"done", "caught", "rejected"} => replies[i] = <<"pong">>

\* C4: no failure escapes the 'ipc-example' handler: its own async result
\* never ends rejected.
C4_NoFailureEscapes == \A i \in Msgs : hpc[i] # "rejected"

\* C5 as claimed: whenever startDriverBin resolves, the value is the process
\* handle and the process is still running at that moment.
C5_ResolvesWhileRunning ==
  [][\A i \in Msgs :
       (Settles(i) /\ promise'[i].state = "fulfilled")
         => (promise'[i] = Program(i) /\ Running(i)')]_vars

\* C5 as amended: whenever startDriverBin has resolved, the value is the
\* spawned process handle, and the resolution came either from the port
\* probe's promise fulfilling after a first stdout chunk (the process may
\* have exited meanwhile) or from an 'exit' event with code 0 that was the
\* first meaningful signal, in which case the process had already exited.
C5_ResolvesWithHandle ==
  \A i \in Msgs :
    promise[i].state = "fulfilled" =>
      /\ promise[i] = Program(i)
      /\ \/ first[i] = "stdout" /\ probe[i] \in {"open", "timeout"}
         \/ /\ first[i] = "exit" /\ exitCode[i] = 0
            /\ proc[i] \in {"exited", "closed"}

\* resolved by an 'exit' with code 0: the handle is that of an exited process
C5_Witness ==
  /\ promise[1] = Program(1)
  /\ first[1] = "exit"
  /\ proc[1] = "exited"

\* C6: when a stdout chunk is the first meaningful signal a port probe is
\* started and the probe alone decides: nothing is settled while it is
\* pending, a successful connection within the timeout resolves with the
\* process handle, a timeout or a connection failure rejects with the
\* start-failure error, and 'error' and 'exit' events do not change that.
C6_ProbeDecides ==
  \A i \in Msgs :
    /\ first[i] = "stdout" <=> probe[i] # "none"
    /\ probe[i] = "pending" => promise[i] = Pending
    /\ probe[i] = "open" => promise[i] = Program(i)
    /\ probe[i] \in {"timeout", "error"} => promise[i] = StartError

\* C7: when an 'exit' event with code 0 is the first meaningful signal,
\* startDriverBin rejects (with the captured text) exactly when the
\* error-stream text received so far begins with 'Error:', and resolves with
\* the process handle in every other case.
C7_ExitZero ==
  [][\A i \in Msgs :
       (isFirst[i] /\ first'[i] = "exit" /\ exitCode'[i] = 0) =>
         IF BeginsWith(errText[i], Marker)
           THEN promise'[i] = StderrError(errText[i])
           ELSE promise'[i] = Program(i)]_vars

\* 'x' then 'Error:' on stderr, then exit 0: the marker is not at offset 0
C7_Witness ==
  /\ first[1] = "exit"
  /\ exitCode[1] = 0
  /\ errText[1] = <<120>> \o Marker
  /\ promise[1] = Program(1)

\* C8: every rejection is of exactly one of four kinds, fixed by the first
\* meaningful signal: exit with a code other than 0 (null included), exit
\* with code 0 and leading 'Error:' text, an 'error' event or a thrown
\* spawn exception, a failed port probe; a first 'exit' with a code other
\* than 0 rejects with the exit-code error, a first 'error' event with that
\* error, and a port probe that failed with the start-failure error.
C8_RejectionKinds ==
  \A i \in Msgs :
    /\ promise[i].state = "rejected" =>
         \/ /\ first[i] = "exit" /\ exitCode[i] # 0
            /\ promise[i] = ExitCodeError(exitCode[i])
         \/ /\ first[i] = "exit" /\ exitCode[i] = 0
            /\ promise[i].kind = "Stderr"
            /\ BeginsWith(promise[i].detail, Marker)
         \/ /\ first[i] = "error"
            /\ promise[i] = ErrorEventError
         \/ /\ first[i] = "none" /\ proc[i] = "none"
            /\ promise[i] = ThrownError
         \/ /\ first[i] = "stdout" /\ probe[i] \in {"timeout", "error"}
            /\ promise[i] = StartError
    /\ (first[i] = "exit" /\ exitCode[i] # 0) =>
         promise[i] = ExitCodeError(exitCode[i])
    /\ first[i] = "error" => promise[i] = ErrorEventError
    /\ probe[i] \in {"timeout", "error"} => promise[i] = StartError

\* C9: the guard flag starts set, is cleared by the first stdout chunk,
\* 'error' or 'exit' event, and is never set again; once it is clear only
\* the probe's completion calls resolve or reject, and no probe is started,
\* so at most one probe is started per invocation.
C9_SingleShot ==
  /\ [](\A i \in Msgs : /\ isFirst[i] <=> first[i] = "none"
                        /\ probes[i] <= 1)
  /\ [][\A i \in Msgs :
          ~isFirst[i] =>
            /\ ~isFirst'[i]
            /\ probes'[i] = probes[i]
            /\ calls'[i] # calls[i] =>
                 (probe[i] = "pending" /\ probe'[i] # "pending")]_vars

\* stdout cleared the flag; a second chunk and the 'exit' event were
\* discarded while the probe is still pending
C9_Witness ==
  /\ first[1] = "stdout"
  /\ probe[1] = "pending"
  /\ proc[1] = "exited"
  /\ events >= 2
  /\ calls[1] = 0

\* C10: at most one application window is live at any time.
C10_AtMostOneWindow == Cardinality(live) <= 1

\* the driver processes that have been spawned and have not failed, exited
\* or closed
LiveDrivers == {i \in Msgs : proc[i] = "running"}

\* C11: at most one driver subprocess spawned by the 'ipc-example' handler
\* is live at any time, for every sequence of 'ipc-example' messages.
C11_AtMostOneDriver == Cardinality(LiveDrivers) <= 1

\* the messages whose handler has been started
Handled == {i \in Msgs : hpc[i] # "idle"}

RECURSIVE SumOver(_, _)
SumOver(f, S) ==
  IF S = {} THEN 0
  ELSE LET x == CHOOSE y \in S : TRUE IN f[x] + SumOver(f, S \ {x})

\* C12: the round trip has no retry: for each message spawn is called
\* exactly once and webdriverio.remote at most once (and only after the
\* driver start resolved), whatever fails; the number of spawn calls equals
\* the number of messages handled.
C12_NoRetry ==
  /\ \A i \in Msgs :
       /\ spawns[i] = IF i \in Handled THEN 1 ELSE 0
       /\ sessions[i] <= 1
       /\ sessions[i] = 1 => promise[i].state = "fulfilled"
  /\ SumOver(spawns, Msgs) = Cardinality(Handled)

\* two messages handled: the first driver start was rejected, the session
\* of the second failed and was answered
C12_Witness ==
  /\ hpc[1] = "rejected"
  /\ hpc[2] = "caught"
  /\ spawns[1] = 1 /\ spawns[2] = 1
  /\ sessions[1] = 0 /\ sessions[2] = 1

\* C13: although stdout and stderr chunks go to the same buffer, while the
\* guard flag is set the buffer is the concatenation of the stderr chunks
\* received so far and holds no stdout data; so the text the 'exit' handler
\* tests for 'Error:' never contains stdout data.
C13_BufferIsErrorText ==
  \A i \in Msgs : isFirst[i] => stderr[i] = errText[i]

\* the flag is still set after two stderr chunks
C13_Witness ==
  /\ isFirst[1]
  /\ proc[1] = "running"
  /\ events >= 2
  /\ Len(errText[1]) >= 2

\* C14: a stderr chunk and a 'close' event never settle startDriverBin and
\* change neither the guard flag nor the probe: a stderr chunk only extends
\* the accumulated text, whatever it is, and a rejection with the captured
\* text comes only from an 'exit' event with code 0 that is the first
\* meaningful signal.
C14_StderrAndCloseFrame ==
  [][\A i \in Msgs :
       /\ errText'[i] # errText[i] =>
            /\ \E data \in Chunks :
                 /\ errText'[i] = errText[i] \o toStringUtf8(data)
                 /\ stderr'[i] = stderr[i] \o toStringUtf8(data)
            /\ promise'[i] = promise[i] /\ calls'[i] = calls[i]
            /\ isFirst'[i] = isFirst[i] /\ first'[i] = first[i]
            /\ probe'[i] = probe[i] /\ probes'[i] = probes[i]
            /\ proc'[i] = proc[i] /\ exitCode'[i] = exitCode[i]
            /\ hpc'[i] = hpc[i] /\ replies'[i] = replies[i]
       /\ (proc[i] # "closed" /\ proc'[i] = "closed") =>
            /\ promise'[i] = promise[i] /\ calls'[i] = calls[i]
            /\ isFirst'[i] = isFirst[i] /\ first'[i] = first[i]
            /\ probe'[i] = probe[i] /\ probes'[i] = probes[i]
            /\ stderr'[i] = stderr[i] /\ errText'[i] = errText[i]
            /\ hpc'[i] = hpc[i] /\ replies'[i] = replies[i]
       /\ (promise[i].state = "pending" /\ promise'[i].kind = "Stderr") =>
            /\ isFirst[i] /\ ~isFirst'[i]
            /\ Running(i) /\ proc'[i] = "exited" /\ exitCode'[i] = 0
            /\ BeginsWith(errText[i], Marker)
            /\ promise'[i] = StderrError(errText[i])]_vars

\* stdout came first; 'Error:' arrived on stderr, then 'exit' and 'close',
\* and nothing is settled while the probe is pending
C14_Witness ==
  /\ first[1] = "stdout"
  /\ probe[1] = "pending"
  /\ BeginsWith(errText[1], Marker)
  /\ proc[1] = "closed"
  /\ promise[1] = Pending
  /\ calls[1] = 0

====
